---- MODULE Spec2Model ----
(***************************************************************************)
(* Model of price_tracker.py: the track-mode pipeline of main(), the card  *)
(* loop of check_product_existence() and the cleaning step of              *)
(* plot_price_history().                                                   *)
(*                                                                         *)
(* A text is a sequence of pieces.  Texts the program scans (card markup,  *)
(* price cells) are spelled one character per piece; fixed messages the    *)
(* program only copies are spelled as a single piece.                      *)
(***************************************************************************)
EXTENDS Integers, Sequences, FiniteSets, TLC

VARIABLES
    pc,              \* position of main()
    SEL_OK,          \* the import guard of lines 13-25
    products_df,     \* the product queries main() iterates over
    all_products,    \* the queries as read from the products file, before head()
    limit,           \* args.limit (0 stands for None)
    file,            \* the output file: [exists, rows], rows as CSV text rows
    fileAtStart,     \* the rows the output file held when the run started
    loadFailed,      \* read_csv of the existing output file raised
    loaded,          \* the rows read from the output file at start
    historical_df,   \* the accumulated rows
    dr,              \* TRUE when uc.Chrome(...) returned a session
    args_delay,      \* args.delay: <<>> for None, <<d>> for a value
    delay_value,     \* the delay the next wait uses
    iter,            \* number of loop iterations begun
    result,          \* the ProductData of the iteration in flight
    clock,           \* wall clock, in seconds
    log,             \* the checks that returned: position, query, outcome, time
    lastSave,        \* outcome of the latest persist of this run, "none" before it
    exit,            \* how main() left the try block, "none" while inside
    closing,         \* what the finally block did, in order
    epage,           \* extractor: the cards of the page being scanned
    ecard,           \* extractor: index of the card under examination
    eresult,         \* extractor: the ProductData returned
    esource,         \* extractor: index of the card the result was built from,
                     \* 0 when none qualified, -1 while the loop runs
    ppc,             \* position of plot_price_history()
    master,          \* plot: the master file [exists, rows]
    keyword,         \* plot: the keyword
    pdf,             \* plot: the data frame, rows with price_clean once cleaned
    pout             \* plot: what was written to the output file and rendered

vars == <<pc, SEL_OK, products_df, all_products, limit, file, fileAtStart,
          loadFailed, loaded, historical_df, dr, args_delay, delay_value, iter,
          result, clock, log, lastSave, exit, closing, epage, ecard, eresult, esource,
          ppc, master, keyword, pdf, pout>>

trackVars == <<pc, SEL_OK, products_df, all_products, limit, file, fileAtStart,
               loadFailed, loaded, historical_df, dr, args_delay, delay_value,
               iter, result, clock, log, lastSave, exit, closing>>
extractVars == <<epage, ecard, eresult, esource>>
plotVars == <<ppc, master, keyword, pdf, pout>>

(***************************************************************************)
(* Bounds                                                                  *)
(***************************************************************************)
MaxQueries == 2
MaxCards == 2
MaxMasterRows == 2

(***************************************************************************)
(* Texts                                                                   *)
(***************************************************************************)
\* The missing value (None in a ProductData, NaN in a data frame).
NaN == <<"<NaN>">>

Min(a, b) == IF a < b THEN a ELSE b

IsPrefix(s, t) == Len(s) <= Len(t) /\ SubSeq(t, 1, Len(s)) = s

\* str.lower() on the characters the sample texts use.
LowerChar(c) ==
    CASE c = "B" -> "b"
      [] c = "I" -> "i"
      [] c = "D" -> "d"
      [] c = "W" -> "w"
      [] OTHER -> c

Lower(t) == [k \in 1..Len(t) |-> LowerChar(t[k])]

\* needle in text
Contains(t, needle) ==
    \E k \in 0..(Len(t) - Len(needle)) : SubSeq(t, k + 1, k + Len(needle)) = needle

Bid == <<"b", "i", "d">>
Dollar == <<"$">>

RECURSIVE LStrip(_)
LStrip(t) == IF t # <<>> /\ Head(t) = " " THEN LStrip(Tail(t)) ELSE t

RECURSIVE RStrip(_)
RStrip(t) ==
    IF t # <<>> /\ t[Len(t)] = " " THEN RStrip(SubSeq(t, 1, Len(t) - 1)) ELSE t

Strip(t) == RStrip(LStrip(t))

\* Tag.get_text(strip=True): the text nodes of an element, each stripped,
\* the empty ones dropped, joined without a separator.
RECURSIVE get_text(_)
get_text(nodes) ==
    IF nodes = <<>> THEN <<>> ELSE Strip(Head(nodes)) \o get_text(Tail(nodes))

(***************************************************************************)
(* ProductData                                                             *)
(***************************************************************************)
\* The clock value when the module is imported and the class body of
\* ProductData is executed.
ImportTime == 1

\* Line 34: the default of the timestamp field is the value time.strftime
\* returned when the class was defined; no constructor call passes a timestamp.
DefaultTimestamp == ImportTime

ProductData(product_name, is_found, product_url, status, notes, price) ==
    [product_name |-> product_name, is_found |-> is_found,
     timestamp |-> DefaultTimestamp, product_url |-> product_url,
     status |-> status, notes |-> notes, price |-> price]

row(pd) ==
    [product_name |-> pd.product_name, is_found |-> pd.is_found,
     timestamp |-> pd.timestamp, product_url |-> pd.product_url,
     status |-> pd.status, notes |-> pd.notes, price |-> pd.price]

StatusOk == <<"ok">>
StatusError == <<"error">>
NotesNoListing == <<"Only auctions or no valid listings found.">>
NotesTimeout == <<"Timeout waiting for elements.">>
NotesNoDriver == <<"WebDriver not initialized.">>
NotesFound(price) == <<"Product found. Price: ">> \o price
NotesError(msg) == <<"Error: ">> \o msg
UnknownProduct == <<"Unknown Product">>

(***************************************************************************)
(* The card loop of check_product_existence                                *)
(*                                                                         *)
(* A card is [attrs, prices, title, link]: the div elements of class       *)
(* su-card-container__attributes, the span elements of class s-card__price *)
(* and the div elements of class s-card__title of the card, each in        *)
(* document order and each given by its text nodes, and its elements       *)
(* a.image-treatment, each given by its href, NaN when it has none.        *)
(***************************************************************************)
\* Lines 100-101: card.find returns the first attributes div of the card.
IsAuction(card) ==
    /\ card.attrs # <<>>
    /\ Contains(Lower(get_text(card.attrs[1])), Bid)

\* Line 109
ValidPrice(text) ==
    text # <<>> /\ Contains(text, Dollar) /\ ~Contains(Lower(text), Bid)

\* Lines 105-111: the first valid price text, NaN (None) when there is none.
RECURSIVE FirstPrice(_)
FirstPrice(spans) ==
    IF spans = <<>> THEN NaN
    ELSE IF ValidPrice(get_text(Head(spans))) THEN get_text(Head(spans))
    ELSE FirstPrice(Tail(spans))

\* Lines 115-129
CardResult(card, price) ==
    ProductData(IF card.title # <<>> THEN get_text(card.title[1]) ELSE UnknownProduct,
                TRUE,
                IF card.link # <<>> THEN card.link[1] ELSE NaN,
                StatusOk, NotesFound(price), price)

\* Line 131
NotFoundResult(product_query) ==
    ProductData(product_query, FALSE, NaN, StatusOk, NotesNoListing, NaN)

\* Lines 98-113: the card is passed over (either continue statement).
CardSkipped(card) == IsAuction(card) \/ FirstPrice(card.prices) = NaN

\* Line 121: link['href'] raises KeyError when the first link has no href.
LinkRaises(card) == card.link # <<>> /\ card.link[1] = NaN

KeyErrorText == <<"'href'">>

\* Lines 135-136
ErrorResult(product_query, msg) ==
    ProductData(product_query, FALSE, NaN, StatusOk, NotesError(msg), NaN)

\* Lines 98-131 from card k on, and lines 135-136 when the loop raises.
RECURSIVE ScanCards(_, _, _)
ScanCards(cards, k, product_query) ==
    IF k > Len(cards) THEN NotFoundResult(product_query)
    ELSE IF CardSkipped(cards[k]) THEN ScanCards(cards, k + 1, product_query)
    ELSE IF LinkRaises(cards[k]) THEN ErrorResult(product_query, KeyErrorText)
    ELSE CardResult(cards[k], FirstPrice(cards[k].prices))

\* Lines 78-136.  fetched is what the browser did for the query:
\* [kind |-> "page", cards |-> ...], [kind |-> "timeout", ...] when the results
\* container did not appear, [kind |-> "error", msg |-> ...] for another fault.
check_product_existence(driver, product_query, fetched) ==
    IF ~driver
    THEN ProductData(product_query, FALSE, NaN, StatusError, NotesNoDriver, NaN)
    ELSE CASE fetched.kind = "page" ->
                ScanCards(fetched.cards, 1, product_query)
           [] fetched.kind = "timeout" ->
                ProductData(product_query, FALSE, NaN, StatusOk, NotesTimeout, NaN)
           [] OTHER -> ErrorResult(product_query, fetched.msg)

\* Line 83: quote_plus raises TypeError for a query that is not a string (the
\* NaN pandas gives an empty cell).
QuotePlusRaises(product_query) == product_query = NaN

(***************************************************************************)
(* Sample markup                                                           *)
(***************************************************************************)
Card(attrs, prices, title, link) ==
    [attrs |-> attrs, prices |-> prices, title |-> title, link |-> link]

BlockShipping == << <<"F", "r", "e", "e">> >>
BlockBids == << <<" ", "3">>, <<" ", "b", "i", "d", "s", " ">> >>
BlockBidUpper == << <<"0", " ", "B", "I", "D", "S">> >>

SpanPrice == << <<" ", "$", "5", " ">> >>
SpanPriceTwo == << <<"$", "7">> >>
SpanBidPrice == << <<"b", "i", "d", ":">>, <<"$", "9">> >>
SpanBlank == << <<" ">> >>
SpanSold == << <<"S", "o", "l", "d">> >>

TitleWidget == << <<"W", "i", "d">> >>
TitleNA == << <<"N", "/", "A">> >>
Href == <<"https://www.ebay.com/itm/1">>

SampleAttrs ==
    { <<>>, <<BlockShipping>>, <<BlockBids>>, <<BlockBidUpper>>,
      <<BlockBids, BlockShipping>>, <<BlockShipping, BlockBids>> }

SamplePrices ==
    { <<>>, <<SpanPrice>>, <<SpanBidPrice>>, <<SpanBidPrice, SpanPriceTwo>>,
      <<SpanSold, SpanBlank>>, <<SpanPrice, SpanPriceTwo>> }

SampleCards ==
    { Card(a, p, t[1], t[2]) :
        a \in SampleAttrs, p \in SamplePrices,
        t \in { <<<<TitleWidget>>, <<Href>>>>, <<<<>>, <<>>>>,
                 <<<<TitleWidget>>, <<NaN, Href>>>> } }

SeqsUpTo(S, n) == UNION { [1..k -> S] : k \in 0..n }

(***************************************************************************)
(* CSV files                                                               *)
(***************************************************************************)
\* The cell texts pandas.read_csv reads as missing (its default na_values).
NAValues ==
    { <<>>, <<"N", "/", "A">>, <<"N", "A">>, <<"N", "a", "N">>, <<"n", "a", "n">>,
      <<"n", "u", "l", "l">>, <<"N", "U", "L", "L">>, <<"N", "o", "n", "e">>,
      <<"n", "/", "a">> }

ReadCell(t) == IF t \in NAValues THEN NaN ELSE t

\* DataFrame.to_csv writes a missing value as an empty field.
WriteCell(c) == IF c = NaN THEN <<>> ELSE c

ReadRow(r) ==
    [product_name |-> ReadCell(r.product_name), is_found |-> r.is_found,
     timestamp |-> r.timestamp, product_url |-> ReadCell(r.product_url),
     status |-> ReadCell(r.status), notes |-> ReadCell(r.notes),
     price |-> ReadCell(r.price)]

WriteRow(r) ==
    [product_name |-> WriteCell(r.product_name), is_found |-> r.is_found,
     timestamp |-> r.timestamp, product_url |-> WriteCell(r.product_url),
     status |-> WriteCell(r.status), notes |-> WriteCell(r.notes),
     price |-> WriteCell(r.price)]

read_csv(rows) == [k \in 1..Len(rows) |-> ReadRow(rows[k])]

to_csv(df) == [k \in 1..Len(df) |-> WriteRow(df[k])]

\* Lines 70-76.  w is what the write did: "ok"; "open_failed", the file could
\* not be opened and is left as it was; "write_failed", the file was opened for
\* writing and the write stopped after w.kept rows.  Either failure is caught
\* and printed.
save_historical_data(f, df, w) ==
    CASE w.kind = "ok" -> [exists |-> TRUE, rows |-> to_csv(df)]
      [] w.kind = "open_failed" -> f
      [] OTHER -> [exists |-> TRUE, rows |-> SubSeq(to_csv(df), 1, w.kept)]

Writes(df) ==
    { [kind |-> "ok", kept |-> Len(df)], [kind |-> "open_failed", kept |-> 0] }
    \cup { [kind |-> "write_failed", kept |-> k] : k \in 0..(Len(df) - 1) }

\* Lines 51-68.  pf is the products file [exists, readable, has_product, rows].
get_products_to_track(pf) ==
    IF ~pf.exists THEN [none |-> TRUE, rows |-> <<>>]
    ELSE IF ~pf.readable THEN [none |-> TRUE, rows |-> <<>>]
    ELSE IF ~pf.has_product THEN [none |-> TRUE, rows |-> <<>>]
    ELSE [none |-> FALSE, rows |-> pf.rows]

\* head() taking one row too many
headOffByOne(df, n) == SubSeq(df, 1, Min(n + 1, Len(df)))

\* Line 199: DataFrame.head(n) for n > 0
head(df, n) == SubSeq(df, 1, Min(n, Len(df)))

\* Lines 198-200
ApplyLimitTo(df, n) == IF n > 0 THEN head(df, n) ELSE df

\* main() never reading the existing file
LoadExistingNever(f, readOk) == <<>>

\* Lines 203-210: the rows main() starts from.
LoadExisting(f, readOk) == IF f.exists /\ readOk THEN read_csv(f.rows) ELSE <<>>

\* only the rows of found products being kept
concatFoundOnly(df, r) == IF r.is_found THEN Append(df, r) ELSE df

\* Lines 232-233
concat(df, r) == Append(df, r)

\* the loop body not persisting
SaveProgressSkipped(f, df, w) == f

\* Line 237: the persist of the loop body.
SaveProgress(f, df, w) == save_historical_data(f, df, w)

\* dr.quit() without its own try block
AfterQuitUnguarded(raised) == IF raised THEN "done" ELSE "final_save"

\* Lines 251-259: where main() goes after dr.quit(), which raised or not.
AfterQuit(raised) == "final_save"

(***************************************************************************)
(* Inputs of the track mode                                                *)
(***************************************************************************)
WidgetA == <<"Widget A">>
WidgetB == <<"Widget B">>

\* A cell of the product column: a string, or NaN for an empty cell.
Queries == {WidgetA, WidgetB, NaN}

ProductFiles ==
    { [exists |-> FALSE, readable |-> FALSE, has_product |-> FALSE, rows |-> <<>>],
      [exists |-> TRUE, readable |-> FALSE, has_product |-> FALSE, rows |-> <<>>],
      [exists |-> TRUE, readable |-> TRUE, has_product |-> FALSE, rows |-> <<>>] }
    \cup { [exists |-> TRUE, readable |-> TRUE, has_product |-> TRUE, rows |-> q] :
             q \in SeqsUpTo(Queries, MaxQueries) }

\* args.limit; 0 stands for None, which line 198 treats alike.
Limits == 0..MaxQueries

\* args.delay_min and args.delay_max of the runs explored; line 223 and line
\* 244 draw the delay from the range between them.
DelayMin == 2
DelayMax == 2
RandomDelays == DelayMin..DelayMax

ArgDelays == { <<>>, <<-1>>, <<0>> }

\* Line 90 and line 93
WaitTimeout == 15
SettleDelay == 2

GoodCard == Card(<<BlockShipping>>, <<SpanPrice>>, <<TitleWidget>>, <<Href>>)
AuctionCard == Card(<<BlockBids>>, <<SpanPrice>>, <<TitleWidget>>, <<Href>>)
NACard == Card(<<>>, <<SpanPriceTwo>>, <<TitleNA>>, <<>>)

Fetches ==
    { [kind |-> "page", cards |-> <<>>, msg |-> <<>>],
      [kind |-> "page", cards |-> <<AuctionCard, GoodCard>>, msg |-> <<>>],
      [kind |-> "timeout", cards |-> <<>>, msg |-> <<>>],
      [kind |-> "error", cards |-> <<>>, msg |-> <<"Message: unknown error">>] }

FetchTime(fetched) ==
    CASE fetched.kind = "page" -> SettleDelay
      [] fetched.kind = "timeout" -> WaitTimeout
      [] OTHER -> 0

\* Rows an earlier run wrote: a not-found row, and a found row whose title
\* was the text N/A.
OldRowA == [WriteRow(row(NotFoundResult(WidgetA))) EXCEPT !.timestamp = 0]
OldRowNA ==
    [WriteRow(row(CardResult(NACard, FirstPrice(NACard.prices)))) EXCEPT !.timestamp = 0]

StartFiles ==
    { [exists |-> FALSE, rows |-> <<>>],
      [exists |-> TRUE, rows |-> <<OldRowNA, OldRowA>>] }

NoResult == NotFoundResult(NaN)

(***************************************************************************)
(* main(): track mode                                                      *)
(***************************************************************************)
TrackIdle ==
    /\ pc = "idle" /\ SEL_OK = TRUE /\ products_df = <<>> /\ all_products = <<>>
    /\ limit = 0 /\ file = [exists |-> FALSE, rows |-> <<>>] /\ fileAtStart = <<>>
    /\ loadFailed = FALSE /\ loaded = <<>> /\ historical_df = <<>> /\ dr = FALSE
    /\ args_delay = <<>> /\ delay_value = 0 /\ iter = 0 /\ result = NoResult
    /\ clock = ImportTime /\ log = <<>> /\ lastSave = "none" /\ exit = "none"
    /\ closing = <<>>

ExtractIdle == epage = <<>> /\ ecard = 0 /\ eresult = NoResult /\ esource = 0

NothingOut == [written |-> <<>>, rendered |-> FALSE]

PlotIdle ==
    /\ ppc = "idle" /\ master = [exists |-> FALSE, rows |-> <<>>]
    /\ keyword = <<>> /\ pdf = <<>> /\ pout = NothingOut

Init ==
    /\ pc = "start"
    /\ SEL_OK \in BOOLEAN
    /\ file \in StartFiles
    /\ fileAtStart = file.rows
    /\ products_df = <<>> /\ all_products = <<>> /\ limit = 0
    /\ loadFailed = FALSE /\ loaded = <<>> /\ historical_df = <<>> /\ dr = FALSE
    /\ args_delay = <<>> /\ delay_value = 0 /\ iter = 0 /\ result = NoResult
    /\ clock = ImportTime /\ log = <<>> /\ lastSave = "none" /\ exit = "none"
    /\ closing = <<>>
    /\ ExtractIdle /\ PlotIdle

\* Lines 184-189
Start ==
    /\ pc = "start"
    /\ pc' = IF SEL_OK THEN "load_products" ELSE "done"
    /\ exit' = IF SEL_OK THEN exit ELSE "return"
    /\ UNCHANGED <<SEL_OK, products_df, all_products, limit, file, fileAtStart,
                   loadFailed, loaded, historical_df, dr, args_delay, delay_value,
                   iter, result, clock, log, lastSave, closing,
                   extractVars, plotVars>>

\* Lines 192-195
LoadProducts ==
    /\ pc = "load_products"
    /\ \E pf \in ProductFiles :
         LET got == get_products_to_track(pf) IN
           IF got.none \/ got.rows = <<>>
           THEN /\ pc' = "done" /\ exit' = "return"
                /\ UNCHANGED <<products_df, all_products>>
           ELSE /\ pc' = "limit" /\ exit' = exit
                /\ products_df' = got.rows /\ all_products' = got.rows
    /\ UNCHANGED <<SEL_OK, limit, file, fileAtStart, loadFailed, loaded,
                   historical_df, dr, args_delay, delay_value, iter, result, clock,
                   log, lastSave, closing,
                   extractVars, plotVars>>

\* Lines 197-200
ApplyLimit ==
    /\ pc = "limit"
    /\ \E n \in Limits :
         /\ limit' = n
         /\ products_df' = ApplyLimitTo(products_df, n)
    /\ pc' = "load_hist"
    /\ UNCHANGED <<SEL_OK, all_products, file, fileAtStart, loadFailed, loaded,
                   historical_df, dr, args_delay, delay_value, iter, result, clock,
                   log, lastSave, exit, closing,
                   extractVars, plotVars>>

\* Lines 202-210
LoadHistorical ==
    /\ pc = "load_hist"
    /\ \E readOk \in BOOLEAN :
         /\ file.exists \/ readOk
         /\ historical_df' = LoadExisting(file, readOk)
         /\ loaded' = historical_df'
         /\ loadFailed' = (file.exists /\ ~readOk)
    /\ pc' = "init"
    /\ UNCHANGED <<SEL_OK, products_df, all_products, limit, file, fileAtStart, dr,
                   args_delay, delay_value, iter, result, clock, log, lastSave,
                   exit, closing,
                   extractVars, plotVars>>

\* Lines 212-223: uc.Chrome(...) returns a session, or raises and the except
\* clause of line 248 is entered.
InitSession ==
    /\ pc = "init"
    /\ \E ok \in BOOLEAN, d \in ArgDelays, r \in RandomDelays :
         /\ args_delay' = d
         /\ dr' = ok
         /\ IF ok
            THEN /\ delay_value' = IF d # <<>> THEN d[1] ELSE r
                 /\ pc' = "loop" /\ exit' = exit
            ELSE /\ d = <<>> /\ r = DelayMin
                 /\ delay_value' = delay_value
                 /\ pc' = "finally" /\ exit' = "exception"
    /\ UNCHANGED <<SEL_OK, products_df, all_products, limit, file, fileAtStart,
                   loadFailed, loaded, historical_df, iter, result, clock, log,
                   lastSave, closing,
                   extractVars, plotVars>>

\* Lines 225-230: the next row of products_df is checked.  quote_plus is
\* outside the try block of check_product_existence, so its TypeError reaches
\* the except clause of line 248.
CheckProduct ==
    /\ pc = "loop"
    /\ iter < Len(products_df)
    /\ iter' = iter + 1
    /\ LET product_query == products_df[iter + 1] IN
         IF QuotePlusRaises(product_query)
         THEN /\ pc' = "finally" /\ exit' = "exception"
              /\ UNCHANGED <<result, clock, log>>
         ELSE \E fetched \in Fetches :
                /\ result' = check_product_existence(dr, product_query, fetched)
                /\ clock' = clock + FetchTime(fetched)
                /\ log' = Append(log, [pos |-> iter + 1, query |-> product_query,
                                       fetched |-> fetched, time |-> clock'])
                /\ pc' = "record" /\ exit' = exit
    /\ UNCHANGED <<SEL_OK, products_df, all_products, limit, file, fileAtStart,
                   loadFailed, loaded, historical_df, dr, args_delay, delay_value,
                   lastSave, closing,
                   extractVars, plotVars>>

\* Lines 232-237
Record ==
    /\ pc = "record"
    /\ historical_df' = concat(historical_df, row(result))
    /\ \E w \in Writes(historical_df') :
         /\ file' = SaveProgress(file, historical_df', w)
         /\ lastSave' = w.kind
    /\ pc' = "wait"
    /\ UNCHANGED <<SEL_OK, products_df, all_products, limit, fileAtStart, loadFailed,
                   loaded, dr, args_delay, delay_value, iter, result, clock, log,
                   exit, closing,
                   extractVars, plotVars>>

\* Lines 239-244: time.sleep raises ValueError for a negative delay.
Wait ==
    /\ pc = "wait"
    /\ IF delay_value < 0
       THEN /\ pc' = "finally" /\ exit' = "exception"
            /\ UNCHANGED <<clock, delay_value>>
       ELSE /\ clock' = clock + delay_value
            /\ \E r \in RandomDelays :
                 IF args_delay = <<>> THEN delay_value' = r
                 ELSE r = DelayMin /\ delay_value' = delay_value
            /\ pc' = "loop" /\ exit' = exit
    /\ UNCHANGED <<SEL_OK, products_df, all_products, limit, file, fileAtStart,
                   loadFailed, loaded, historical_df, dr, args_delay, iter, result,
                   log, lastSave, closing,
                   extractVars, plotVars>>

\* Lines 225, 246: the rows are exhausted.
LoopExit ==
    /\ pc = "loop"
    /\ iter = Len(products_df)
    /\ pc' = "finally" /\ exit' = "completed"
    /\ UNCHANGED <<SEL_OK, products_df, all_products, limit, file, fileAtStart,
                   loadFailed, loaded, historical_df, dr, args_delay, delay_value,
                   iter, result, clock, log, lastSave, closing,
                   extractVars, plotVars>>

\* Lines 250-256: dr.quit() is attempted when a session exists; what it raises
\* is swallowed.
Quit ==
    /\ pc = "finally"
    /\ IF dr
       THEN \E raised \in BOOLEAN :
              /\ closing' = Append(closing, IF raised THEN "quit_raised" ELSE "quit")
              /\ pc' = AfterQuit(raised)
       ELSE /\ closing' = closing
            /\ pc' = "final_save"
    /\ UNCHANGED <<SEL_OK, products_df, all_products, limit, file, fileAtStart,
                   loadFailed, loaded, historical_df, dr, args_delay, delay_value,
                   iter, result, clock, log, lastSave, exit,
                   extractVars, plotVars>>

\* Lines 258-259
FinalSave ==
    /\ pc = "final_save"
    /\ \E w \in Writes(historical_df) :
         /\ file' = save_historical_data(file, historical_df, w)
         /\ lastSave' = w.kind
    /\ closing' = Append(closing, "final_save")
    /\ pc' = "done"
    /\ UNCHANGED <<SEL_OK, products_df, all_products, limit, fileAtStart, loadFailed,
                   loaded, historical_df, dr, args_delay, delay_value, iter, result,
                   clock, log, exit,
                   extractVars, plotVars>>

Next ==
    \/ Start
    \/ LoadProducts
    \/ ApplyLimit
    \/ LoadHistorical
    \/ InitSession
    \/ CheckProduct
    \/ Record
    \/ Wait
    \/ LoopExit
    \/ Quit
    \/ FinalSave

Spec == Init /\ [][Next]_vars

(***************************************************************************)
(* Properties of the track mode                                            *)
(***************************************************************************)
\* The rows this run added to the store.
Added == SubSeq(historical_df, Len(loaded) + 1, Len(historical_df))

\* The number of iterations the limit and the list allow.
Expected ==
    IF limit > 0 THEN Min(limit, Len(all_products)) ELSE Len(all_products)

\* Row k of the run is the row of the k-th check that returned.
RowOfCheck(r, c) ==
    /\ r.is_found => c.fetched.kind = "page"
    /\ ~r.is_found => r.product_name = c.query

\* C1: the rows added by a run are, one for one and in order, the rows of the
\* checks that returned, whatever each check's outcome; between a check and
\* its concat the row of the check in flight is the only one missing.
C1_RowPerProcessedQuery ==
    /\ IsPrefix(loaded, historical_df)
    /\ Len(Added) = IF pc = "record" THEN Len(log) - 1 ELSE Len(log)
    /\ \A k \in 1..Len(Added) :
         /\ k <= Len(log)
         /\ log[k].pos = k
         /\ log[k].query = all_products[k]
         /\ RowOfCheck(Added[k], log[k])

\* C1 witness: a finished run with a timeout and a fetch error, two rows added.
C1_Witness ==
    /\ pc = "done" /\ Len(log) = 2 /\ Len(Added) = 2
    /\ log[1].fetched.kind = "timeout" /\ log[2].fetched.kind = "error"

\* C2 as stated: a run over a non-empty list performs exactly
\* min(N, len) iterations (len without a limit), one row each.
C2_ExactIterations ==
    (pc = "done" /\ all_products # <<>>) =>
        /\ iter = Expected
        /\ Len(log) = Expected
        /\ Len(Added) = Expected

\* C2 amended: at most min(N, len) iterations are begun (len without a
\* limit), the k-th on the k-th query of the file, no query beyond that
\* position is checked or gets a row, and exactly that many iterations have
\* run when the loop ends by exhausting its rows.
C2_LimitedIterations ==
    /\ iter <= Expected
    /\ Len(log) <= iter
    /\ Len(Added) <= Expected
    /\ pc \notin {"start", "load_products", "limit"} =>
         products_df = SubSeq(all_products, 1, Expected)
    /\ \A k \in 1..Len(log) :
         log[k].pos = k /\ log[k].query = all_products[k] /\ k <= Expected
    /\ exit = "completed" =>
         /\ iter = Expected
         /\ Len(log) = Expected
         /\ Len(Added) = Expected

\* C2 witness: limit 1 over Widget A, Widget B; the loop ran to its end after
\* checking Widget A only.
C2_Witness ==
    /\ pc = "done" /\ exit = "completed" /\ limit = 1
    /\ all_products = <<WidgetA, WidgetB>>
    /\ iter = 1 /\ Len(log) = 1 /\ log[1].query = WidgetA /\ Len(Added) = 1

\* C3: the row of a check whose fetch failed has status error and notes
\* carrying the failure message, and a row has status ok only when the page
\* was fetched.
C3_FetchFailureIsError ==
    \A k \in 1..Len(Added) :
        /\ log[k].fetched.kind = "timeout" =>
             Added[k].status = StatusError /\ Added[k].notes = NotesTimeout
        /\ log[k].fetched.kind = "error" =>
             /\ Added[k].status = StatusError
             /\ Added[k].notes = NotesError(log[k].fetched.msg)
        /\ Added[k].status = StatusOk => log[k].fetched.kind = "page"

\* C4: once the session initialisation was reached, main() cannot stop before
\* its end, and at its end the finally block has attempted to quit the session
\* exactly when one was started and has then made one final persist, of all the
\* rows accumulated, whether or not quitting raised.
C4_ClosingAlwaysRuns ==
    /\ (pc \in {"init", "loop", "record", "wait", "finally", "final_save"}) =>
         ENABLED Next
    /\ (pc = "done" /\ exit # "return") =>
         /\ exit \in {"completed", "exception"}
         /\ Len(closing) = IF dr THEN 2 ELSE 1
         /\ closing[Len(closing)] = "final_save"
         /\ dr => closing[1] \in {"quit", "quit_raised"}
         /\ lastSave = "ok" => file.rows = to_csv(historical_df)
    /\ (pc # "done") => (\A k \in 1..Len(closing) : closing[k] # "final_save")

\* C4 witness: the loop was left by an exception after a row was added,
\* quitting the session raised, and the final persist was made.
C4_Witness ==
    /\ pc = "done" /\ exit = "exception" /\ Len(Added) >= 1
    /\ closing = <<"quit_raised", "final_save">>
    /\ file.rows = to_csv(historical_df)

\* C5: while the loop waits, is about to fetch the next query or holds the
\* result of a fetch not yet recorded, the store holds the rows loaded at start
\* followed by one row per earlier query, and the file, when the latest write
\* succeeded, is that store written out; before the first write the file still
\* reads as the rows loaded.
C5_PersistedBeforeWait ==
    (pc \in {"wait", "loop", "record"}) =>
        /\ IsPrefix(loaded, historical_df)
        /\ Len(Added) = IF pc = "record" THEN iter - 1 ELSE iter
        /\ \A k \in 1..Len(Added) : log[k].pos = k /\ RowOfCheck(Added[k], log[k])
        /\ lastSave = "ok" => file.rows = to_csv(historical_df)
        /\ (lastSave = "none" /\ ~loadFailed) => read_csv(file.rows) = historical_df
        /\ (lastSave = "none") = (Len(Added) = 0)

\* C5 witness: waiting after the second check, two rows loaded at start, the
\* file holding all four.
C5_Witness ==
    /\ pc = "wait" /\ iter = 2 /\ lastSave = "ok"
    /\ Len(loaded) = 2 /\ Len(file.rows) = 4

\* C6 as stated: after every persist the rows the file held at start are a
\* prefix of the file.
C6_AppendOnly == (lastSave # "none") => IsPrefix(fileAtStart, file.rows)

\* A CSV row no cell of which read_csv takes for a missing value.
NoNAText(r) ==
    \A c \in {r.product_name, r.product_url, r.status, r.notes, r.price} :
        c \notin (NAValues \ {<<>>})

\* C6 amended: after every persist that succeeds in a run whose load did not
\* fail, the rows the file held at start, as read_csv parsed them, are a prefix
\* of the file, and those without a cell read as missing are there unchanged.
C6_AppendOnlyWhenLoaded ==
    (lastSave = "ok" /\ ~loadFailed) =>
        /\ IsPrefix(to_csv(read_csv(fileAtStart)), file.rows)
        /\ \A k \in 1..Len(fileAtStart) :
             NoNAText(fileAtStart[k]) => file.rows[k] = fileAtStart[k]

\* C6 witness: a finished run that loaded two rows and added one.
C6_Witness ==
    /\ pc = "done" /\ lastSave = "ok" /\ ~loadFailed
    /\ Len(fileAtStart) = 2 /\ Len(file.rows) = 3

\* C10: every row added carries the clock time of its check, so of two checks
\* made at different times the later has the later timestamp.
C10_TimestampIsCheckTime ==
    \A k \in 1..Len(Added) :
        /\ Added[k].timestamp = log[k].time
        /\ \A j \in 1..(k - 1) :
             log[j].time < log[k].time => Added[j].timestamp < Added[k].timestamp

(***************************************************************************)
(* The card loop of check_product_existence, card by card                  *)
(***************************************************************************)
InitExtract ==
    /\ TrackIdle /\ PlotIdle
    /\ epage \in SeqsUpTo(SampleCards, MaxCards)
    /\ ecard = 1
    /\ eresult = NoResult
    /\ esource = -1

\* Lines 99-102
SkipAuction ==
    /\ esource = -1 /\ ecard <= Len(epage)
    /\ IsAuction(epage[ecard])
    /\ ecard' = ecard + 1
    /\ UNCHANGED <<epage, eresult, esource, trackVars, plotVars>>

\* Lines 104-113
SkipNoPrice ==
    /\ esource = -1 /\ ecard <= Len(epage)
    /\ ~IsAuction(epage[ecard])
    /\ FirstPrice(epage[ecard].prices) = NaN
    /\ ecard' = ecard + 1
    /\ UNCHANGED <<epage, eresult, esource, trackVars, plotVars>>

\* Lines 104-129
ReturnFound ==
    /\ esource = -1 /\ ecard <= Len(epage)
    /\ ~IsAuction(epage[ecard])
    /\ FirstPrice(epage[ecard].prices) # NaN
    /\ ~LinkRaises(epage[ecard])
    /\ eresult' = CardResult(epage[ecard], FirstPrice(epage[ecard].prices))
    /\ esource' = ecard
    /\ UNCHANGED <<epage, ecard, trackVars, plotVars>>

\* Lines 120-121, 135-136: the KeyError of a link without href is caught.
RaiseKeyError ==
    /\ esource = -1 /\ ecard <= Len(epage)
    /\ ~CardSkipped(epage[ecard])
    /\ LinkRaises(epage[ecard])
    /\ eresult' = ErrorResult(WidgetA, KeyErrorText)
    /\ esource' = 0
    /\ UNCHANGED <<epage, ecard, trackVars, plotVars>>

\* Line 131
ReturnNotFound ==
    /\ esource = -1 /\ ecard > Len(epage)
    /\ eresult' = NotFoundResult(WidgetA)
    /\ esource' = 0
    /\ UNCHANGED <<epage, ecard, trackVars, plotVars>>

NextExtract ==
    SkipAuction \/ SkipNoPrice \/ ReturnFound \/ RaiseKeyError \/ ReturnNotFound

SpecExtract == InitExtract /\ [][NextExtract]_vars

\* The card loop taken card by card returns what check_product_existence
\* returns for the page.
StepwiseAgrees ==
    (esource >= 0) =>
        eresult = check_product_existence(TRUE, WidgetA,
                      [kind |-> "page", cards |-> epage, msg |-> <<>>])

\* The card has an attribute block whose text mentions bid.
HasBidBlock(card) ==
    \E b \in 1..Len(card.attrs) : Contains(Lower(get_text(card.attrs[b])), Bid)

\* The card has a price span with a currency symbol and no bid in it.
HasValidPrice(card) ==
    \E p \in 1..Len(card.prices) : ValidPrice(get_text(card.prices[p]))

Qualifies(card) == ~HasBidBlock(card) /\ HasValidPrice(card)

\* C7: the card a found result is built from has no attribute block that
\* mentions bid.
C7_BidCardNeverSource == (esource > 0) => ~HasBidBlock(epage[esource])

\* C8: the result is built from the first card that has no bid-marked
\* attribute block and has a valid price span, its price is the first valid
\* span of that card, and the result is not-found with the no-listing notes
\* exactly when no card passes both filters.
C8_FirstQualifyingCard ==
    (esource >= 0) =>
        IF \E k \in 1..Len(epage) : Qualifies(epage[k])
        THEN /\ esource > 0
             /\ Qualifies(epage[esource])
             /\ \A j \in 1..(esource - 1) : ~Qualifies(epage[j])
             /\ eresult.is_found
             /\ eresult.price = FirstPrice(epage[esource].prices)
        ELSE /\ esource = 0
             /\ ~eresult.is_found
             /\ eresult.notes = NotesNoListing

(***************************************************************************)
(* plot_price_history                                                      *)
(***************************************************************************)
Digits == {"0", "1", "2", "3", "4", "5", "6", "7", "8", "9"}

\* re.sub(r'[^\d.]', '', s)
RECURSIVE StripNonNumeric(_)
StripNonNumeric(t) ==
    IF t = <<>> THEN <<>>
    ELSE IF Head(t) \in Digits \cup {"."}
         THEN <<Head(t)>> \o StripNonNumeric(Tail(t))
         ELSE StripNonNumeric(Tail(t))

RECURSIVE Count(_, _)
Count(t, c) ==
    IF t = <<>> THEN 0
    ELSE (IF Head(t) = c THEN 1 ELSE 0) + Count(Tail(t), c)

\* float(s) raises ValueError for a text of digits and dots that has no digit
\* or more than one dot.
FloatRaises(s) == Count(s, ".") > 1 \/ Len(s) = Count(s, ".")

DigitValue(c) ==
    CASE c = "0" -> 0 [] c = "1" -> 1 [] c = "2" -> 2 [] c = "3" -> 3
      [] c = "4" -> 4 [] c = "5" -> 5 [] c = "6" -> 6 [] c = "7" -> 7
      [] c = "8" -> 8 [] OTHER -> 9

RECURSIVE Units(_)
Units(t) ==
    IF t = <<>> THEN 0 ELSE 10 * Units(SubSeq(t, 1, Len(t) - 1)) + DigitValue(t[Len(t)])

RECURSIVE DropTrailingZeros(_)
DropTrailingZeros(t) ==
    IF t # <<>> /\ t[Len(t)] = "0" THEN DropTrailingZeros(SubSeq(t, 1, Len(t) - 1))
    ELSE t

DotAt(s) == IF \E k \in 1..Len(s) : s[k] = "." 
            THEN CHOOSE k \in 1..Len(s) : s[k] = "."
            ELSE Len(s) + 1

\* float(s) for a text it accepts: the integer part and the fraction digits.
Float(s) ==
    [null |-> FALSE,
     units |-> Units(SubSeq(s, 1, DotAt(s) - 1)),
     frac |-> DropTrailingZeros(SubSeq(s, DotAt(s) + 1, Len(s)))]

NoPrice == [null |-> TRUE, units |-> 0, frac |-> <<>>]

\* Line 155, the lambda: raises exactly when float does.
CleanRaises(x) == x # NaN /\ FloatRaises(StripNonNumeric(x))

CleanPrice(x) == IF x = NaN THEN NoPrice ELSE Float(StripNonNumeric(x))

WithPriceClean(r) ==
    [product_name |-> r.product_name, is_found |-> r.is_found,
     timestamp |-> r.timestamp, product_url |-> r.product_url,
     status |-> r.status, notes |-> r.notes, price |-> r.price,
     price_clean |-> CleanPrice(r.price)]

\* Line 159: str.contains(keyword, case=False, na=False)
Matches(r, kw) ==
    r.product_name # NaN /\ Contains(Lower(r.product_name), Lower(kw))

RECURSIVE Select(_, _)
Select(df, kw) ==
    IF df = <<>> THEN <<>>
    ELSE (IF Matches(Head(df), kw) THEN <<Head(df)>> ELSE <<>>) \o Select(Tail(df), kw)

RECURSIVE InsertByTimestamp(_, _)
InsertByTimestamp(sorted, r) ==
    IF sorted = <<>> THEN <<r>>
    ELSE IF sorted[Len(sorted)].timestamp <= r.timestamp THEN Append(sorted, r)
    ELSE Append(InsertByTimestamp(SubSeq(sorted, 1, Len(sorted) - 1), r),
                sorted[Len(sorted)])

\* Line 160: sort_values('timestamp')
RECURSIVE sort_values(_)
sort_values(df) ==
    IF df = <<>> THEN <<>>
    ELSE InsertByTimestamp(sort_values(SubSeq(df, 1, Len(df) - 1)), df[Len(df)])

NameWidget == <<"W", "i", "d">>
NameBox == <<"B", "o", "x">>

SamplePriceTexts ==
    { <<"$", "5">>, <<"$", "1", ".", "5", "0">>, <<>>, <<"N", "/", "A">>,
      <<"F", "r", "e", "e">>,
      <<"$", "1", ".", "0", " ", "t", "o", " ", "$", "2", ".", "0">> }

MasterRow(name, price, ts) ==
    [product_name |-> name, is_found |-> TRUE, timestamp |-> ts,
     product_url |-> <<>>, status |-> StatusOk, notes |-> <<>>, price |-> price]

SampleMasterRows ==
    { MasterRow(n, p, ts) :
        n \in {NameWidget, NameBox}, p \in SamplePriceTexts, ts \in {1, 2} }

Keywords == { <<"w", "i", "d">>, <<"z">> }

InitPlot ==
    /\ TrackIdle /\ ExtractIdle
    /\ ppc = "load"
    /\ master \in { [exists |-> FALSE, rows |-> <<>>] }
                  \cup { [exists |-> TRUE, rows |-> m] :
                           m \in SeqsUpTo(SampleMasterRows, MaxMasterRows) }
    /\ keyword \in Keywords
    /\ pdf = <<>>
    /\ pout = NothingOut

\* Lines 141-152
PlotLoad ==
    /\ ppc = "load"
    /\ IF ~master.exists \/ master.rows = <<>>
       THEN ppc' = "done" /\ pdf' = pdf
       ELSE ppc' = "clean" /\ pdf' = read_csv(master.rows)
    /\ UNCHANGED <<master, keyword, pout, trackVars, extractVars>>

\* Lines 154-156: Series.apply calls the lambda on every price; one ValueError
\* leaves plot_price_history.
PlotClean ==
    /\ ppc = "clean"
    /\ IF \E k \in 1..Len(pdf) : CleanRaises(pdf[k].price)
       THEN ppc' = "raised" /\ pdf' = pdf
       ELSE ppc' = "filter" /\ pdf' = [k \in 1..Len(pdf) |-> WithPriceClean(pdf[k])]
    /\ UNCHANGED <<master, keyword, pout, trackVars, extractVars>>

\* Lines 158-164
PlotFilter ==
    /\ ppc = "filter"
    /\ pdf' = sort_values(Select(pdf, keyword))
    /\ ppc' = IF pdf' = <<>> THEN "done" ELSE "write"
    /\ UNCHANGED <<master, keyword, pout, trackVars, extractVars>>

\* Lines 166-168
PlotWrite ==
    /\ ppc = "write"
    /\ pout' = [pout EXCEPT !.written = pdf]
    /\ ppc' = "render"
    /\ UNCHANGED <<master, keyword, pdf, trackVars, extractVars>>

\* Lines 170-179
PlotRender ==
    /\ ppc = "render"
    /\ pout' = [pout EXCEPT !.rendered = TRUE]
    /\ ppc' = "done"
    /\ UNCHANGED <<master, keyword, pdf, trackVars, extractVars>>

NextPlot == PlotLoad \/ PlotClean \/ PlotFilter \/ PlotWrite \/ PlotRender

SpecPlot == InitPlot /\ [][NextPlot]_vars

\* The price text, stripped of what is neither digit nor dot, reads as a decimal.
Parses(x) == x # NaN /\ ~FloatRaises(StripNonNumeric(x))

\* C9: cleaning never raises, so a price that does not parse stops neither
\* the filtering nor the write nor the render, and the cleaned price of every
\* row is the decimal of its stripped text when that parses and null otherwise.
C9_UnparseablePriceIsNull ==
    /\ ppc # "raised"
    /\ (ppc \in {"filter", "write", "render"}) =>
         \A k \in 1..Len(pdf) :
             pdf[k].price_clean =
                 IF Parses(pdf[k].price) THEN Float(StripNonNumeric(pdf[k].price))
                 ELSE NoPrice

====
